---- MODULE Spec2Model ----
(***************************************************************************)
(* Model of the lifecycle of metadataserver.Server (src/metadataserver.go) *)
(*                                                                         *)
(* The Server keeps its run state in the field s.status, a channel that is *)
(* nil while the server counts as stopped.  Start and Stop are methods a   *)
(* program may call from several goroutines; nothing in the code locks the *)
(* field, so every read and every write of s.status is a step of its own.  *)
(* The accept loop runs in a goroutine spawned by Start; it reports the    *)
(* result of http.Server.ListenAndServe over the unbuffered channel.       *)
(*                                                                         *)
(* The http.Server is created once, in New, and used for every Start.  Of  *)
(* net/http the model keeps what the code relies on: ListenAndServe binds  *)
(* the configured address (which fails while the address is in use),       *)
(* serves until the listener is closed, and returns ErrServerClosed once   *)
(* Shutdown has been called on the server; Shutdown closes the listeners,  *)
(* waits for the open connections and returns the context's error when the *)
(* deadline passes first.  The configured port is taken to be a fixed      *)
(* non-zero port, as in the default configuration.                         *)
(***************************************************************************)
EXTENDS Integers, FiniteSets, Sequences, TLC

\* Number of Start and Stop calls made on the Server.
MaxCalls == 3

\* The goroutines of the program that call Start and Stop.
Callers == {"a", "b"}

\* A channel made by Start, and the goroutine spawned with it, share a number.
Chans == 1 .. MaxCalls
NilChan == 0

Errors == {"nil", "ErrServerAlreadyStarted", "ErrServerIsNotRunning",
           "ErrServerClosed", "ErrBind", "ErrAccept", "DeadlineExceeded"}

\* Errors of ListenAndServe that line 180 takes for a failure.
IsFailure(e) == e # "nil" /\ e # "ErrServerClosed"

----------------------------------------------------------------------------
\* Paths.  The endpoint, the handler keys and the request paths are strings
\* the code takes apart character by character; they are sequences of
\* one-character strings here.  Every other string is a TLA+ string.

\* The elements of p between its slashes, from position i on.
RECURSIVE SegsFrom(_, _, _)
SegsFrom(p, i, cur) ==
    IF i > Len(p) THEN <<cur>>
    ELSE IF p[i] = "/" THEN <<cur>> \o SegsFrom(p, i + 1, <<>>)
    ELSE SegsFrom(p, i + 1, Append(cur, p[i]))

\* path.Clean on the elements: empty and "." elements go, ".." takes the
\* element before it away (and goes itself at the root).
RECURSIVE Resolve(_, _, _, _)
Resolve(segs, i, st, rooted) ==
    IF i > Len(segs) THEN st
    ELSE LET x == segs[i] IN
         IF x = <<>> \/ x = <<".">> THEN Resolve(segs, i + 1, st, rooted)
         ELSE IF x = <<".", ".">>
           THEN IF st # <<>> /\ st[Len(st)] # <<".", ".">>
                  THEN Resolve(segs, i + 1, SubSeq(st, 1, Len(st) - 1),
                               rooted)
                ELSE IF rooted THEN Resolve(segs, i + 1, st, rooted)
                ELSE Resolve(segs, i + 1, Append(st, x), rooted)
         ELSE Resolve(segs, i + 1, Append(st, x), rooted)

RECURSIVE JoinSegs(_, _)
JoinSegs(st, i) ==
    IF i > Len(st) THEN <<>>
    ELSE IF i = Len(st) THEN st[i]
    ELSE st[i] \o <<"/">> \o JoinSegs(st, i + 1)

\* path.Clean
Clean(p) ==
    IF p = <<>> THEN <<".">>
    ELSE LET rooted == p[1] = "/"
             body == JoinSegs(Resolve(SegsFrom(p, 1, <<>>), 1, <<>>, rooted),
                              1)
             r == IF rooted THEN <<"/">> \o body ELSE body
         IN IF r = <<>> THEN <<".">> ELSE r

\* path.Join(a, b): empty elements are ignored, the rest is joined with a
\* slash and cleaned.
PathJoin(a, b) ==
    IF a = <<>> /\ b = <<>> THEN <<>>
    ELSE IF a = <<>> THEN Clean(b)
    ELSE IF b = <<>> THEN Clean(a)
    ELSE Clean(a \o <<"/">> \o b)

EndsInSlash(p) == p # <<>> /\ p[Len(p)] = "/"

----------------------------------------------------------------------------
\* The Server that New returns, the process environment, the last request
\* made to the Server's handler with its response, the last call of
\* NewConfiguration or NewConfigFromFile with its result, and the value a
\* caller got from Configuration().  shared holds what callers and Servers
\* refer to in common: the DefaultConfigurationHandlers map, a Configuration
\* of the caller, and the Servers built so far.
VARIABLES srv, env, req, resp, out, snap, shared

confVars == <<srv, env, req, resp, out, snap, shared>>

\* Metadata providers (type Metadata func() string).  The code makes two
\* kinds of closure: one that returns a captured string, one that calls
\* os.Getenv with a captured name.

Static(text) == [kind |-> "static", text |-> text]
EnvLookup(name) == [kind |-> "env", name |-> name]

\* The environment variables the model follows, and the values they take;
\* "" stands for an unset variable, which is what os.Getenv returns for it.
EnvNames == {"X_A"}
EnvValues == {"", "hello", "bye"}

\* os.Getenv
Getenv(e, name) == IF name \in DOMAIN e THEN e[name] ELSE ""

\* v(): the call of a provider in the environment e.
Invoke(v, e) == IF v.kind = "static" THEN v.text ELSE Getenv(e, v.name)

----------------------------------------------------------------------------
\* Configuration (NewConfiguration, NewConfigFromFile, convert)

DefaultAddress == "169.254.169.254"
\* "/computeMetadata/v1", two elements, written /c/v
DefaultEndpoint == <<"/", "c", "/", "v">>
DefaultPort == 80
DefaultShutdownTimeout == 5
\* "project/project-id", written p/i
DefaultKey == <<"p", "/", "i">>
DefaultConfigurationHandlers == DefaultKey :> Static("test-project-id")

\* A map without entries; the code cannot tell a nil map from an empty one
\* (it takes len of it and ranges over it).
EmptyMap == <<>>

\* NewConfiguration without the fallback to the default handlers.
NewConfiguration_NoFallback(handlers) ==
    [Address |-> DefaultAddress, Endpoint |-> DefaultEndpoint,
     Handlers |-> handlers, Port |-> DefaultPort,
     ShutdownTimeout |-> DefaultShutdownTimeout]

NewConfiguration(handlers) ==
    [Address |-> DefaultAddress,
     Endpoint |-> DefaultEndpoint,
     Handlers |-> IF Cardinality(DOMAIN handlers) = 0
                    THEN DefaultConfigurationHandlers ELSE handlers,
     Port |-> DefaultPort,
     ShutdownTimeout |-> DefaultShutdownTimeout]

\* JSON values of a document: strings, numbers, booleans and null.
JStr(x) == [t |-> "string", s |-> x, n |-> 0]
JNum(x) == [t |-> "number", s |-> "", n |-> x]
JTrue == [t |-> "true", s |-> "", n |-> 0]
JNull == [t |-> "null", s |-> "", n |-> 0]

Digit(d) == CASE d = 0 -> "0" [] d = 1 -> "1" [] d = 2 -> "2" [] d = 3 -> "3"
              [] d = 4 -> "4" [] d = 5 -> "5" [] d = 6 -> "6" [] d = 7 -> "7"
              [] d = 8 -> "8" [] d = 9 -> "9"

RECURSIVE Decimal(_)
Decimal(x) == IF x < 10 THEN Digit(x) ELSE Decimal(x \div 10) \o Digit(x % 10)

\* A type assertion v2.(string) in place of Sprintf: no text for the rest.
Sprint_StringsOnly(v) == IF v.t = "string" THEN v.s ELSE ""

\* fmt.Sprintf("%v", v2) of a decoded JSON value
Sprint(v) ==
    CASE v.t = "string" -> v.s
      [] v.t = "number" -> Decimal(v.n)
      [] v.t = "true" -> "true"
      [] v.t = "null" -> "<nil>"

\* An entry of "metadata": a JSON object with the keys in has, or a value
\* that is no object.
Entry(isObject, has, value, envName) ==
    [object |-> isObject, has |-> has, value |-> value, env |-> envName]

\* convert reading the variable when the document is decoded.
convert_Cached(m) ==
    LET kept == {k \in DOMAIN m :
                    m[k].object /\ m[k].has \cap {"value", "env"} # {}}
    IN [k \in kept |->
          IF "value" \in m[k].has THEN Static(Sprint(m[k].value))
          ELSE Static(Getenv(env, Sprint(m[k].env)))]

convert(m) ==
    LET kept == {k \in DOMAIN m :
                    m[k].object /\ m[k].has \cap {"value", "env"} # {}}
    IN [k \in kept |->
          IF "value" \in m[k].has THEN Static(Sprint(m[k].value))
          ELSE EnvLookup(Sprint(m[k].env))]

\* Unmarshal giving a document without "metadata" the default entry.
Unmarshal_DefaultMetadata(doc) ==
    [Address |-> IF "address" \in doc.has THEN doc.address ELSE "",
     Endpoint |-> IF "endpoint" \in doc.has THEN doc.endpoint ELSE <<>>,
     Handlers |-> IF "metadata" \in doc.has THEN doc.metadata
                  ELSE DefaultKey :>
                         Entry(TRUE, {"value"}, JStr("test-project-id"), JNull),
     Port |-> IF "port" \in doc.has THEN doc.port ELSE 0,
     ShutdownTimeout |-> IF "shutdownTimeout" \in doc.has
                           THEN doc.shutdownTimeout ELSE 0]

\* A document: kind says whether the file can be read and decoded; has names
\* the keys that are present.  json.Unmarshal leaves the fields of absent
\* keys at their zero values.
Unmarshal(doc) ==
    [Address |-> IF "address" \in doc.has THEN doc.address ELSE "",
     Endpoint |-> IF "endpoint" \in doc.has THEN doc.endpoint ELSE <<>>,
     Handlers |-> IF "metadata" \in doc.has THEN doc.metadata ELSE EmptyMap,
     Port |-> IF "port" \in doc.has THEN doc.port ELSE 0,
     ShutdownTimeout |-> IF "shutdownTimeout" \in doc.has
                           THEN doc.shutdownTimeout ELSE 0]

NoConfig == [Nil |-> TRUE]

\* NewConfigFromFile returning the defaults, and no error, for a file that
\* cannot be read or decoded.
NewConfigFromFile_DefaultsOnError(doc) ==
    LET jc == Unmarshal(doc)
        c == NewConfiguration(DefaultConfigurationHandlers)
    IN [config |->
          IF doc.kind # "ok" THEN c
          ELSE [Address |-> IF jc.Address # "" THEN jc.Address ELSE c.Address,
                Endpoint |-> IF jc.Endpoint # <<>>
                               THEN (IF jc.Endpoint[1] # "/"
                                       THEN <<"/">> \o jc.Endpoint
                                       ELSE jc.Endpoint)
                               ELSE c.Endpoint,
                Handlers |-> convert(jc.Handlers),
                Port |-> IF jc.Port > 0 THEN jc.Port ELSE c.Port,
                ShutdownTimeout |-> IF jc.ShutdownTimeout > 0
                                      THEN jc.ShutdownTimeout
                                      ELSE c.ShutdownTimeout],
        err |-> "nil"]

\* NewConfigFromFile taking every port and timeout that is not zero.
NewConfigFromFile_NonZero(doc) ==
    IF doc.kind # "ok"
      THEN [config |-> NoConfig, err |-> doc.kind]
    ELSE
      LET jc == Unmarshal(doc)
          c == NewConfiguration(DefaultConfigurationHandlers)
          ep == IF jc.Endpoint[1] # "/" THEN <<"/">> \o jc.Endpoint
                ELSE jc.Endpoint
      IN [config |->
            [Address |-> IF jc.Address # "" THEN jc.Address ELSE c.Address,
             Endpoint |-> IF jc.Endpoint # <<>> THEN ep ELSE c.Endpoint,
             Handlers |-> convert(jc.Handlers),
             Port |-> IF jc.Port # 0 THEN jc.Port ELSE c.Port,
             ShutdownTimeout |-> IF jc.ShutdownTimeout # 0
                                   THEN jc.ShutdownTimeout
                                   ELSE c.ShutdownTimeout],
          err |-> "nil"]

\* NewConfigFromFile taking the address, port and timeout of the document
\* as they are decoded.
NewConfigFromFile_AsDecoded(doc) ==
    IF doc.kind # "ok"
      THEN [config |-> NoConfig, err |-> doc.kind]
    ELSE
      LET jc == Unmarshal(doc)
          c == NewConfiguration(DefaultConfigurationHandlers)
          ep == IF jc.Endpoint[1] # "/" THEN <<"/">> \o jc.Endpoint
                ELSE jc.Endpoint
      IN [config |->
            [Address |-> jc.Address,
             Endpoint |-> IF jc.Endpoint # <<>> THEN ep ELSE c.Endpoint,
             Handlers |-> convert(jc.Handlers),
             Port |-> jc.Port,
             ShutdownTimeout |-> jc.ShutdownTimeout],
          err |-> "nil"]

\* NewConfigFromFile: the Configuration and the error
NewConfigFromFile(doc) ==
    IF doc.kind # "ok"
      THEN [config |-> NoConfig, err |-> doc.kind]
    ELSE
      LET jc == Unmarshal(doc)
          c == NewConfiguration(DefaultConfigurationHandlers)
          ep == IF jc.Endpoint[1] # "/" THEN <<"/">> \o jc.Endpoint
                ELSE jc.Endpoint
      IN [config |->
            [Address |-> IF jc.Address # "" THEN jc.Address ELSE c.Address,
             Endpoint |-> IF jc.Endpoint # <<>> THEN ep ELSE c.Endpoint,
             Handlers |-> convert(jc.Handlers),
             Port |-> IF jc.Port > 0 THEN jc.Port ELSE c.Port,
             ShutdownTimeout |-> IF jc.ShutdownTimeout > 0
                                   THEN jc.ShutdownTimeout
                                   ELSE c.ShutdownTimeout],
          err |-> "nil"]

----------------------------------------------------------------------------
\* The directives (type Option func(*Server)) and New

WithAddress(a) == [opt |-> "WithAddress", address |-> a]
WithConfigFile(d) == [opt |-> "WithConfigFile", doc |-> d]
WithConfiguration(c) == [opt |-> "WithConfiguration", config |-> c]
WithEndpoint(e) == [opt |-> "WithEndpoint", endpoint |-> e]
WithHandlers(h) == [opt |-> "WithHandlers", handlers |-> h]
WithPort(n) == [opt |-> "WithPort", port |-> n]
WithLogger(l) == [opt |-> "WithLogger", logger |-> l]

\* A zero Configuration in place of the defaults.
ConfigOrDefault_Zero(s) ==
    IF s.config = NoConfig
      THEN [Address |-> "", Endpoint |-> <<"/">>, Handlers |-> EmptyMap,
            Port |-> 0, ShutdownTimeout |-> 0]
      ELSE s.config

\* if s.config == nil { s.config = NewConfiguration(...) }
ConfigOrDefault(s) ==
    IF s.config = NoConfig
      THEN NewConfiguration(DefaultConfigurationHandlers)
      ELSE s.config

\* opt(s) with a WithConfigFile that drops the configuration when its file
\* does not load.
ApplyOption_FailedLoadClears(s, d) ==
    CASE d.opt = "WithAddress" ->
           [s EXCEPT !.config =
               [ConfigOrDefault(s) EXCEPT !.Address = d.address]]
      [] d.opt = "WithConfigFile" ->
           [s EXCEPT !.config = NewConfigFromFile(d.doc).config]
      [] d.opt = "WithConfiguration" ->
           [s EXCEPT !.config = d.config]
      [] d.opt = "WithEndpoint" ->
           [s EXCEPT !.config =
               [ConfigOrDefault(s) EXCEPT !.Endpoint = d.endpoint]]
      [] d.opt = "WithHandlers" ->
           [s EXCEPT !.config =
               [ConfigOrDefault(s) EXCEPT !.Handlers = d.handlers]]
      [] d.opt = "WithPort" ->
           [s EXCEPT !.config = [ConfigOrDefault(s) EXCEPT !.Port = d.port]]
      [] d.opt = "WithLogger" ->
           [s EXCEPT !.logger = d.logger]

\* opt(s): the Server under construction after the directive d.  errs are
\* the error events written to the logger the Server has at that moment.
ApplyOption(s, d) ==
    CASE d.opt = "WithAddress" ->
           [s EXCEPT !.config =
               [ConfigOrDefault(s) EXCEPT !.Address = d.address]]
      [] d.opt = "WithConfigFile" ->
           LET r == NewConfigFromFile(d.doc) IN
           IF r.err # "nil"
             THEN IF s.logger # "nil"
                    THEN [s EXCEPT !.errs = Append(@, "Failed to load config")]
                    ELSE s
             ELSE [s EXCEPT !.config = r.config]
      [] d.opt = "WithConfiguration" ->
           [s EXCEPT !.config = d.config]
      [] d.opt = "WithEndpoint" ->
           [s EXCEPT !.config =
               [ConfigOrDefault(s) EXCEPT !.Endpoint = d.endpoint]]
      [] d.opt = "WithHandlers" ->
           [s EXCEPT !.config =
               [ConfigOrDefault(s) EXCEPT !.Handlers = d.handlers]]
      [] d.opt = "WithPort" ->
           [s EXCEPT !.config = [ConfigOrDefault(s) EXCEPT !.Port = d.port]]
      [] d.opt = "WithLogger" ->
           [s EXCEPT !.logger = d.logger]

\* The directives applied from the last to the first.
RECURSIVE ApplyOptions_Reversed(_, _, _)
ApplyOptions_Reversed(s, opts, i) ==
    IF i > Len(opts) THEN s
    ELSE ApplyOption(ApplyOptions_Reversed(s, opts, i + 1), opts[i])

\* for _, opt := range opts { opt(s) }
RECURSIVE ApplyOptions(_, _, _)
ApplyOptions(s, opts, i) ==
    IF i > Len(opts) THEN s
    ELSE ApplyOptions(ApplyOption(s, opts[i]), opts, i + 1)

\* The handler of the root path, which writes "ok".
OkHandler == [kind |-> "ok"]

\* The url path of every handler key.
UrlPaths(endpoint, handlers) ==
    [k \in DOMAIN handlers |-> PathJoin(endpoint, k)]

\* mux.HandleFunc panics when a pattern is registered twice.
MuxPanics(endpoint, handlers) ==
    LET urlPath == UrlPaths(endpoint, handlers) IN
    \/ \E k \in DOMAIN handlers : urlPath[k] = endpoint
    \/ \E k1, k2 \in DOMAIN handlers : k1 # k2 /\ urlPath[k1] = urlPath[k2]

\* The mux whose handler closures share one loop variable: each calls the
\* provider the loop ended with.
BuildMux_SharedVariable(endpoint, handlers) ==
    LET urlPath == UrlPaths(endpoint, handlers)
        paths == {urlPath[k] : k \in DOMAIN handlers}
        last == CHOOSE k \in DOMAIN handlers : TRUE
    IN (endpoint :> OkHandler) @@ [q \in paths |-> handlers[last]]

\* The patterns of the mux with their handlers; every handler closure calls
\* the provider of its own key.
BuildMux(endpoint, handlers) ==
    LET urlPath == UrlPaths(endpoint, handlers)
        paths == {urlPath[k] : k \in DOMAIN handlers}
    IN (endpoint :> OkHandler) @@
       [q \in paths |-> handlers[CHOOSE k \in DOMAIN handlers :
                                     urlPath[k] = q]]

\* strconv.Itoa
Itoa(x) == IF x < 0 THEN "-" \o Decimal(0 - x) ELSE Decimal(x)

\* net.JoinHostPort, for a host without a colon
JoinHostPort(host, port) == host \o ":" \o port

NoServer == [state |-> "none"]
Panicked(opts, why) == [state |-> "panic", opts |-> opts, why |-> why]

\* if s.config.Endpoint[0] != '/' { s.config.Endpoint = "/" + ... }
NormalizeEndpoint(e) == IF e[1] # "/" THEN <<"/">> \o e ELSE e

\* New(opts...): the Server, or a panic.  Indexing the empty Endpoint at
\* line 128 panics, and so does a second registration of a pattern.
New(opts) ==
    LET s1 == ApplyOptions([config |-> NoConfig, logger |-> "nil",
                            errs |-> <<>>], opts, 1)
        c1 == ConfigOrDefault(s1)
    IN IF c1.Endpoint = <<>> THEN Panicked(opts, "index out of range")
       ELSE LET c2 == [c1 EXCEPT !.Endpoint = NormalizeEndpoint(@)] IN
            IF MuxPanics(c2.Endpoint, c2.Handlers)
              THEN Panicked(opts, "multiple registrations")
            ELSE [state |-> "built",
                  opts |-> opts,
                  config |-> c2,
                  routes |-> BuildMux(c2.Endpoint, c2.Handlers),
                  addr |-> JoinHostPort(c2.Address, Itoa(c2.Port)),
                  logger |-> IF s1.logger = "nil" THEN "discard"
                             ELSE s1.logger,
                  errs |-> s1.errs]

----------------------------------------------------------------------------
\* The request multiplexer (http.ServeMux) behind HttpHandler

\* cleanPath of net/http: path.Clean that keeps a trailing slash
CleanPath(p) ==
    IF p = <<>> THEN <<"/">>
    ELSE LET q == IF p[1] # "/" THEN <<"/">> \o p ELSE p
             np == Clean(q)
         IN IF EndsInSlash(q) /\ np # <<"/">> THEN np \o <<"/">> ELSE np

IsPrefix(a, b) == Len(a) <= Len(b) /\ SubSeq(b, 1, Len(a)) = a

NoMatch == [kind |-> "none"]

\* A pattern matches the path equal to it; a pattern that ends in a slash
\* matches every path below it; the longest matching pattern wins.
Match(routes, p) ==
    IF p \in DOMAIN routes THEN routes[p]
    ELSE LET sub == {q \in DOMAIN routes : EndsInSlash(q) /\ IsPrefix(q, p)}
         IN IF sub = {} THEN NoMatch
            ELSE routes[CHOOSE q \in sub : \A o \in sub : Len(o) <= Len(q)]

Ok200(body) == [code |-> 200, body |-> body]
Redirect301 == [code |-> 301, body |-> ""]
NotFound404 == [code |-> 404, body |-> "404 page not found"]
NoResponse == [code |-> 0, body |-> ""]

\* The response to a request for the path p in the environment e: a path
\* that is not clean is redirected to the clean one, a path with a handler
\* gets what the handler writes, a path that has a handler once a slash is
\* added is redirected there, every other path is not found.
Respond(routes, e, p) ==
    IF CleanPath(p) # p THEN Redirect301
    ELSE LET h == Match(routes, p) IN
         IF h.kind = "ok" THEN Ok200("ok")
         ELSE IF h.kind # "none" THEN Ok200(Invoke(h, e))
         ELSE IF (p \o <<"/">>) \in DOMAIN routes THEN Redirect301
         ELSE NotFound404

----------------------------------------------------------------------------
\* The lifecycle of the Server

VARIABLES
    status,        \* s.status: NilChan or the channel made by the last Start
    made,          \* number of channels made so far
    calls,         \* number of calls made so far
    pc,            \* where each caller stands
    op,            \* the method each caller called last
    result,        \* what that call returned
    sel,           \* channel operand of the select a caller waits in
    got,           \* error a caller received from the channel
    gor,           \* the accept-loop goroutines
    inShutdown,    \* http.Server: Shutdown has been called
    listeners,     \* http.Server: goroutines whose listener is open
    busy,          \* http.Server: some connection is open
    logged,        \* goroutines that wrote "error listening and serving"
    life,          \* history: fresh, started, cycled
    overlap        \* history: callers whose current call overlapped

lifeVars == <<status, made, calls, pc, op, result, sel, got, gor, inShutdown,
              listeners, busy, logged, life, overlap>>

vars == <<lifeVars, confVars>>

\* The state of the http.Server, and the variables only Enter changes.
httpVars == <<inShutdown, listeners, busy>>
callVars == <<calls, op, overlap>>

\* A goroutine: where it stands, the result of ListenAndServe, the channel
\* it sends on, and as history how ListenAndServe went, whether Shutdown was
\* called since the goroutine was spawned, and whether it was spawned after
\* a Start and a Stop had returned success.
NoGor == [pc |-> "none", err |-> "nil", ch |-> NilChan, how |-> "-",
          sd |-> FALSE, cycled |-> FALSE]

InCall(t) == pc[t] # "idle"
AllIdle == \A t \in Callers : pc[t] = "idle"

TypeOK ==
    /\ status \in {NilChan} \cup Chans
    /\ made \in 0 .. MaxCalls
    /\ calls \in 0 .. MaxCalls
    /\ pc \in [Callers -> {"idle", "start_check", "start_make", "start_select",
                           "start_wait", "start_reset", "stop_check",
                           "stop_mark", "stop_shutdown", "stop_wait"}]
    /\ op \in [Callers -> {"none", "Start", "Stop"}]
    /\ result \in [Callers -> Errors]
    /\ sel \in [Callers -> {NilChan} \cup Chans]
    /\ got \in [Callers -> Errors]
    /\ \A g \in Chans :
          /\ gor[g].pc \in {"none", "spawned", "serving", "returned",
                            "sending", "sent", "exit"}
          /\ gor[g].err \in Errors
          /\ gor[g].ch \in {NilChan} \cup Chans
          /\ gor[g].how \in {"-", "listened", "bindfail", "closed", "stale"}
    /\ inShutdown \in BOOLEAN
    /\ listeners \subseteq Chans
    /\ busy \in BOOLEAN
    /\ logged \subseteq Chans
    /\ life \in {"fresh", "started", "cycled"}

\* A Server that New leaves with its accept loop running.
NotStarted_Listening ==
    /\ status = NilChan
    /\ made = 0
    /\ calls = 0
    /\ pc = [t \in Callers |-> "idle"]
    /\ op = [t \in Callers |-> "none"]
    /\ result = [t \in Callers |-> "nil"]
    /\ sel = [t \in Callers |-> NilChan]
    /\ got = [t \in Callers |-> "nil"]
    /\ gor = [g \in Chans |->
                IF g = MaxCalls
                  THEN [NoGor EXCEPT !.pc = "serving", !.how = "listened"]
                  ELSE NoGor]
    /\ inShutdown = FALSE
    /\ listeners = {MaxCalls}
    /\ busy = FALSE
    /\ logged = {}
    /\ life = "fresh"
    /\ overlap = [t \in Callers |-> {}]

\* The Server as New leaves it: not started.
NotStarted ==
    /\ status = NilChan
    /\ made = 0
    /\ calls = 0
    /\ pc = [t \in Callers |-> "idle"]
    /\ op = [t \in Callers |-> "none"]
    /\ result = [t \in Callers |-> "nil"]
    /\ sel = [t \in Callers |-> NilChan]
    /\ got = [t \in Callers |-> "nil"]
    /\ gor = [g \in Chans |-> NoGor]
    /\ inShutdown = FALSE
    /\ listeners = {}
    /\ busy = FALSE
    /\ logged = {}
    /\ life = "fresh"
    /\ overlap = [t \in Callers |-> {}]

NoRequest == <<>>
NoSnapshot == [taken |-> FALSE]
NoCall == [fn |-> "none"]
NoShared == [global |-> DefaultConfigurationHandlers, c |-> NoConfig,
             users |-> <<>>]
Unset == [n \in EnvNames |-> ""]

\* The Server of New() with no directive, before any call of its methods.
Init ==
    /\ NotStarted
    /\ srv = New(<<>>)
    /\ env = Unset
    /\ req = NoRequest
    /\ resp = NoResponse
    /\ out = NoCall
    /\ snap = NoSnapshot
    /\ shared = NoShared

\* A call returns: the caller is idle again and holds the result.
Return(t, e) ==
    /\ pc' = [pc EXCEPT ![t] = "idle"]
    /\ result' = [result EXCEPT ![t] = e]
    /\ sel' = [sel EXCEPT ![t] = NilChan]
    /\ got' = [got EXCEPT ![t] = "nil"]

\* A caller moves on inside its call.
Goto(t, p) ==
    /\ pc' = [pc EXCEPT ![t] = p]
    /\ UNCHANGED <<result, sel, got>>

\* A call begins: the calls in progress overlap with it.
Enter(t, o, p) ==
    /\ pc[t] = "idle"
    /\ calls < MaxCalls
    /\ calls' = calls + 1
    /\ pc' = [pc EXCEPT ![t] = p]
    /\ op' = [op EXCEPT ![t] = o]
    /\ result' = [result EXCEPT ![t] = "nil"]
    /\ UNCHANGED confVars
    /\ overlap' = [u \in Callers |->
                     IF u = t THEN {v \in Callers \ {t} : InCall(v)}
                     ELSE IF InCall(u) THEN overlap[u] \cup {t}
                     ELSE overlap[u] \ {t}]
    /\ UNCHANGED <<status, made, sel, got, gor, httpVars, logged, life>>

----------------------------------------------------------------------------
\* Server.Start

CallStart(t) == Enter(t, "Start", "start_check")

\* Start without the check of s.status.
StartCheck_NoCheck(t) ==
    /\ pc[t] = "start_check"
    /\ Goto(t, "start_make")
    /\ UNCHANGED <<status, made, gor, httpVars, logged, life, callVars>>
    /\ UNCHANGED confVars

\* if s.status != nil { return ErrServerAlreadyStarted }
StartCheck(t) ==
    /\ pc[t] = "start_check"
    /\ IF status # NilChan
         THEN Return(t, "ErrServerAlreadyStarted")
         ELSE Goto(t, "start_make")
    /\ UNCHANGED <<status, made, gor, httpVars, logged, life, callVars>>
    /\ UNCHANGED confVars

\* s.status = make(chan error); go func() { ... }()
StartMake(t) ==
    /\ pc[t] = "start_make"
    /\ made' = made + 1
    /\ status' = made + 1
    /\ gor' = [gor EXCEPT ![made + 1] =
                 [NoGor EXCEPT !.pc = "spawned",
                               !.cycled = (life = "cycled")]]
    /\ Goto(t, "start_select")
    /\ UNCHANGED <<httpVars, logged, life, callVars>>
    /\ UNCHANGED confVars

\* select { case err := <-s.status: the channel operand is read once, when
\* the select statement is entered.
StartSelect(t) ==
    /\ pc[t] = "start_select"
    /\ sel' = [sel EXCEPT ![t] = status]
    /\ pc' = [pc EXCEPT ![t] = "start_wait"]
    /\ UNCHANGED <<status, made, result, got, gor, httpVars, logged, life,
                   callVars>>
    /\ UNCHANGED confVars

\* case err := <-s.status: the rendezvous with a goroutine that is sending
\* on the same channel.
StartRecv(t, g) ==
    /\ pc[t] = "start_wait"
    /\ gor[g].pc = "sending"
    /\ sel[t] # NilChan
    /\ gor[g].ch = sel[t]
    /\ got' = [got EXCEPT ![t] = gor[g].err]
    /\ gor' = [gor EXCEPT ![g].pc = "sent"]
    /\ pc' = [pc EXCEPT ![t] = "start_reset"]
    /\ UNCHANGED <<status, made, result, sel, httpVars, logged, life,
                   callVars>>
    /\ UNCHANGED confVars

\* The failure branch of the select without "s.status = nil".
StartReset_KeepStatus(t) ==
    /\ pc[t] = "start_reset"
    /\ Return(t, got[t])
    /\ life' = IF got[t] = "nil" /\ life = "fresh" THEN "started" ELSE life
    /\ UNCHANGED <<status, made, gor, httpVars, logged, callVars>>
    /\ UNCHANGED confVars

\* s.status = nil; return err
StartReset(t) ==
    /\ pc[t] = "start_reset"
    /\ status' = NilChan
    /\ Return(t, got[t])
    /\ life' = IF got[t] = "nil" /\ life = "fresh" THEN "started" ELSE life
    /\ UNCHANGED <<made, gor, httpVars, logged, callVars>>
    /\ UNCHANGED confVars

\* The timeout branch of the select resetting s.status as the failure
\* branch does.
StartTimeout_Reset(t) ==
    /\ pc[t] = "start_wait"
    /\ status' = NilChan
    /\ Return(t, "nil")
    /\ life' = IF life = "fresh" THEN "started" ELSE life
    /\ UNCHANGED <<made, gor, httpVars, logged, callVars>>
    /\ UNCHANGED confVars

\* The select without its time.After case.
StartTimeout_Never(t) ==
    /\ pc[t] = "start_wait"
    /\ FALSE
    /\ UNCHANGED vars

\* case <-time.After(100 * time.Millisecond): }  return nil
StartTimeout(t) ==
    /\ pc[t] = "start_wait"
    /\ Return(t, "nil")
    /\ life' = IF life = "fresh" THEN "started" ELSE life
    /\ UNCHANGED <<status, made, gor, httpVars, logged, callVars>>
    /\ UNCHANGED confVars

----------------------------------------------------------------------------
\* The goroutine spawned by Start

\* err := s.server.ListenAndServe(): ErrServerClosed once Shutdown has been
\* called, a bind error when the address cannot be bound (it never can while
\* another listener of this server holds it), else the server listens.
ListenAndServe(g) ==
    /\ gor[g].pc = "spawned"
    /\ \/ /\ inShutdown
          /\ gor' = [gor EXCEPT ![g].pc = "returned",
                                ![g].err = "ErrServerClosed",
                                ![g].how = IF gor[g].sd
                                             THEN "closed" ELSE "stale",
                                ![g].sd = FALSE]
          /\ UNCHANGED listeners
       \/ /\ ~inShutdown
          /\ gor' = [gor EXCEPT ![g].pc = "returned", ![g].err = "ErrBind",
                                ![g].how = "bindfail", ![g].sd = FALSE]
          /\ UNCHANGED listeners
       \/ /\ ~inShutdown
          /\ listeners = {}
          /\ gor' = [gor EXCEPT ![g].pc = "serving", ![g].how = "listened",
                                ![g].sd = FALSE]
          /\ listeners' = {g}
    /\ UNCHANGED <<status, made, pc, result, sel, got, inShutdown, busy,
                   logged, life, callVars>>
    /\ UNCHANGED confVars

\* ListenAndServe returns: ErrServerClosed when Shutdown closed the listener,
\* the error of Accept when accepting failed for good.
ServeReturn(g) ==
    /\ gor[g].pc = "serving"
    /\ IF g \in listeners
         THEN /\ gor' = [gor EXCEPT ![g].pc = "returned",
                                    ![g].err = "ErrAccept"]
              /\ listeners' = listeners \ {g}
         ELSE /\ gor' = [gor EXCEPT ![g].pc = "returned",
                                    ![g].err = "ErrServerClosed"]
              /\ UNCHANGED listeners
    /\ UNCHANGED <<status, made, pc, result, sel, got, inShutdown, busy,
                   logged, life, callVars>>
    /\ UNCHANGED confVars

\* s.status <- err: the field is read when the send statement is reached; a
\* send on a nil channel blocks forever.
SendEval(g) ==
    /\ gor[g].pc = "returned"
    /\ gor' = [gor EXCEPT ![g].pc = "sending", ![g].ch = status]
    /\ UNCHANGED <<status, made, pc, result, sel, got, httpVars, logged, life,
                   callVars>>
    /\ UNCHANGED confVars

\* if err != nil && !errors.Is(err, http.ErrServerClosed) { s.logger.Error }
LogError(g) ==
    /\ gor[g].pc = "sent"
    /\ gor' = [gor EXCEPT ![g] = [NoGor EXCEPT !.pc = "exit"]]
    /\ logged' = IF IsFailure(gor[g].err) THEN logged \cup {g} ELSE logged
    /\ UNCHANGED <<status, made, pc, result, sel, got, httpVars, life,
                   callVars>>
    /\ UNCHANGED confVars

----------------------------------------------------------------------------
\* Server.Stop

CallStop(t) == Enter(t, "Stop", "stop_check")

\* Stop without the check of s.status.
StopCheck_NoCheck(t) ==
    /\ pc[t] = "stop_check"
    /\ Goto(t, "stop_mark")
    /\ UNCHANGED <<status, made, gor, httpVars, logged, life, callVars>>
    /\ UNCHANGED confVars

\* if s.status == nil { return ErrServerIsNotRunning }
StopCheck(t) ==
    /\ pc[t] = "stop_check"
    /\ IF status = NilChan
         THEN Return(t, "ErrServerIsNotRunning")
         ELSE Goto(t, "stop_mark")
    /\ UNCHANGED <<status, made, gor, httpVars, logged, life, callVars>>
    /\ UNCHANGED confVars

\* Stop without "s.status = nil".
StopMark_KeepStatus(t) ==
    /\ pc[t] = "stop_mark"
    /\ Goto(t, "stop_shutdown")
    /\ UNCHANGED <<status, made, gor, httpVars, logged, life, callVars>>
    /\ UNCHANGED confVars

\* s.status = nil
StopMark(t) ==
    /\ pc[t] = "stop_mark"
    /\ status' = NilChan
    /\ Goto(t, "stop_shutdown")
    /\ UNCHANGED <<made, gor, httpVars, logged, life, callVars>>
    /\ UNCHANGED confVars

\* s.server.Shutdown(shutdownCtx) begins: the server is marked as shut down
\* and its listeners are closed.
ShutdownBegin(t) ==
    /\ pc[t] = "stop_shutdown"
    /\ inShutdown' = TRUE
    /\ listeners' = {}
    /\ gor' = [g \in Chans |->
                 IF gor[g].pc = "spawned" THEN [gor[g] EXCEPT !.sd = TRUE]
                 ELSE gor[g]]
    /\ Goto(t, "stop_wait")
    /\ UNCHANGED <<status, made, busy, logged, life, callVars>>
    /\ UNCHANGED confVars

\* return s.server.Shutdown(shutdownCtx): nil when no connection is open,
\* the context's error when the ShutdownTimeout passes first.
ShutdownEnd(t) ==
    /\ pc[t] = "stop_wait"
    /\ LET e == IF ~busy THEN "nil" ELSE "DeadlineExceeded"
       IN /\ Return(t, e)
          /\ life' = IF e = "nil" /\ life = "started" THEN "cycled" ELSE life
    /\ UNCHANGED <<status, made, gor, httpVars, logged, callVars>>
    /\ UNCHANGED confVars

----------------------------------------------------------------------------
\* Clients of the listening server

ConnOpen ==
    /\ listeners # {}
    /\ ~busy
    /\ busy' = TRUE
    /\ UNCHANGED <<status, made, pc, result, sel, got, gor, inShutdown,
                   listeners, logged, life, callVars>>
    /\ UNCHANGED confVars

\* A server that stops listening when its last connection is closed.
ConnClose_IdleShutdown ==
    /\ busy
    /\ busy' = FALSE
    /\ listeners' = {}
    /\ UNCHANGED <<status, made, pc, result, sel, got, gor, inShutdown,
                   logged, life, callVars>>
    /\ UNCHANGED confVars

ConnClose ==
    /\ busy
    /\ busy' = FALSE
    /\ UNCHANGED <<status, made, pc, result, sel, got, gor, inShutdown,
                   listeners, logged, life, callVars>>
    /\ UNCHANGED confVars

----------------------------------------------------------------------------

CallerStep(t) ==
    \/ StartCheck(t)
    \/ StartMake(t)
    \/ StartSelect(t)
    \/ \E g \in Chans : StartRecv(t, g)
    \/ StartReset(t)
    \/ StartTimeout(t)
    \/ StopCheck(t)
    \/ StopMark(t)
    \/ ShutdownBegin(t)
    \/ ShutdownEnd(t)

GorStep(g) ==
    \/ ListenAndServe(g)
    \/ ServeReturn(g)
    \/ SendEval(g)
    \/ LogError(g)

\* Start and Stop called from any goroutine at any time.
Next ==
    \/ \E t \in Callers : CallStart(t)
    \/ \E t \in Callers : CallStop(t)
    \/ \E t \in Callers : CallerStep(t)
    \/ \E g \in Chans : GorStep(g)
    \/ ConnOpen
    \/ ConnClose

Spec == Init /\ [][Next]_vars

\* Start and Stop called one after the other: a call begins only when no
\* other call is in progress.
NextSeq ==
    \/ \E t \in Callers : AllIdle /\ CallStart(t)
    \/ \E t \in Callers : AllIdle /\ CallStop(t)
    \/ \E t \in Callers : CallerStep(t)
    \/ \E g \in Chans : GorStep(g)
    \/ ConnOpen
    \/ ConnClose

SpecSeq == Init /\ [][NextSeq]_vars

----------------------------------------------------------------------------
\* Scheduling: a caller inside Start or Stop keeps running, and the timer of
\* time.After fires, whatever the goroutines do.
SpecFair ==
    /\ Spec
    /\ \A t \in Callers : WF_vars(CallerStep(t))

\* A step of a goroutine other than the failure of Accept on an open
\* listener, which nothing forces to happen.
GorProgress(g) == GorStep(g) /\ g \notin listeners

\* The same for calls made one after the other, with goroutines that keep
\* running too.
SpecSeqFair ==
    /\ SpecSeq
    /\ \A t \in Callers : WF_vars(CallerStep(t))
    /\ \A g \in Chans : WF_vars(GorProgress(g))

----------------------------------------------------------------------------
\* Construction and serving: calls of NewConfiguration, NewConfigFromFile and
\* New, requests to the handler of the Server, changes of the environment

MaxHandlers == 2
MaxOpts == 2

\* Handler keys: empty, "..", "a", "/a", "a/b", "b"
Keys == {<<>>, <<".", ".">>, <<"a">>, <<"/", "a">>, <<"a", "/", "b">>,
         <<"b">>}
Providers == {Static("one"), Static("two"), EnvLookup("X_A")}
HandlerMaps ==
    UNION {[K -> Providers] :
              K \in {K \in SUBSET Keys : Cardinality(K) <= MaxHandlers}}

\* Endpoints: "", "c", "/c", "/c/", "/", "//c"
Endpoints == {<<>>, <<"c">>, <<"/", "c">>, <<"/", "c", "/">>, <<"/">>,
              <<"/", "/", "c">>}

\* A Configuration literal of the caller
Literal(e, h) ==
    [Address |-> "1.2.3.4", Endpoint |-> e, Handlers |-> h, Port |-> 8080,
     ShutdownTimeout |-> 15]

\* Documents.  A key of the document is absent or present with a value.
Absent(zero) == [in |-> FALSE, v |-> zero]
Present(v) == [in |-> TRUE, v |-> v]

DocKeys == {<<"a">>, <<"b">>}
DocEntries ==
    {Entry(TRUE, {"value"}, JStr("one"), JNull),
     Entry(TRUE, {"value"}, JNum(15), JNull),
     Entry(TRUE, {"env"}, JNull, JStr("X_A")),
     Entry(TRUE, {"value", "env"}, JStr("two"), JStr("X_A")),
     Entry(TRUE, {}, JNull, JNull),
     Entry(FALSE, {}, JNull, JNull)}
DocMaps == UNION {[K -> DocEntries] : K \in SUBSET DocKeys}

MkDoc(a, e, p, t, m) ==
    [kind |-> "ok",
     has |-> {k \in {"address", "endpoint", "port", "shutdownTimeout",
                     "metadata"} :
                 \/ k = "address" /\ a.in
                 \/ k = "endpoint" /\ e.in
                 \/ k = "port" /\ p.in
                 \/ k = "shutdownTimeout" /\ t.in
                 \/ k = "metadata" /\ m.in},
     address |-> a.v, endpoint |-> e.v, port |-> p.v,
     shutdownTimeout |-> t.v, metadata |-> m.v]

\* A file that cannot be read, or whose content is no JSON document
BadDoc(k) == [MkDoc(Absent(""), Absent(<<>>), Absent(0), Absent(0),
                    Absent(EmptyMap)) EXCEPT !.kind = k]
BadDocs == {BadDoc("unreadable"), BadDoc("malformed")}

Docs ==
    {MkDoc(a, e, p, t, m) :
        a \in {Absent(""), Present(""), Present("1.2.3.4")},
        e \in {Absent(<<>>), Present(<<>>), Present(<<"c">>),
               Present(<<"/", "c">>)},
        p \in {Absent(0), Present(0), Present(0 - 1), Present(8080)},
        t \in {Absent(0), Present(0), Present(0 - 5), Present(15)},
        m \in {Absent(EmptyMap)} \cup {Present(x) : x \in DocMaps}}
    \cup BadDocs

\* The documents used in lists of directives
EmptyDoc == MkDoc(Absent(""), Absent(<<>>), Absent(0), Absent(0),
                  Absent(EmptyMap))
FullDoc == MkDoc(Present("1.2.3.4"), Present(<<"c">>), Present(8080),
                 Present(15),
                 Present(<<"a">> :> Entry(TRUE, {"value"}, JStr("one"), JNull)))
EnvDoc == MkDoc(Absent(""), Absent(<<>>), Absent(0), Absent(0),
                Present(<<"a">> :> Entry(TRUE, {"env"}, JNull, JStr("X_A"))))

NoEntriesDoc == MkDoc(Absent(""), Present(<<"c">>), Absent(0), Absent(0),
                      Present(EmptyMap))

BasicOpts ==
    {WithAddress("10.11.12.13"), WithPort(777), WithLogger("user")}
    \cup {WithEndpoint(e) : e \in {<<>>, <<"c">>, <<"/", "c">>}}
    \cup {WithHandlers(h) : h \in {EmptyMap, <<"a">> :> Static("one")}}
    \cup {WithConfiguration(c) :
             c \in {NoConfig, Literal(<<"c">>, <<"b">> :> Static("two"))}}
    \cup {WithConfigFile(d) :
             d \in {BadDoc("unreadable"), EmptyDoc, NoEntriesDoc, FullDoc,
                    EnvDoc}}

OptLists == UNION {[1 .. n -> BasicOpts] : n \in 0 .. MaxOpts}

\* The argument lists of New: short lists of directives, and single
\* directives with every endpoint and every handler map
NewInputs ==
    OptLists
    \cup {<<WithConfiguration(Literal(e, h))>> :
             e \in Endpoints, h \in HandlerMaps}
    \cup {<<WithHandlers(h)>> : h \in HandlerMaps}

\* The paths requested from a Server: the root, the patterns of its mux, the
\* path of every key and of the default key under its endpoint, and each of
\* these with something added.
Probes(s) ==
    IF s.state # "built" THEN {}
    ELSE LET base == DOMAIN s.routes
                     \cup {PathJoin(s.config.Endpoint, k) :
                              k \in Keys \cup {DefaultKey}}
         IN {<<"/">>} \cup base
            \cup {b \o x : b \in base,
                           x \in {<<"/">>, <<"a">>, <<"/", "a">>}}

CallNewConfiguration ==
    /\ srv = NoServer
    /\ out = NoCall
    /\ \E h \in HandlerMaps :
          out' = [fn |-> "NewConfiguration", handlers |-> h,
                  config |-> NewConfiguration(h)]
    /\ UNCHANGED <<srv, env, req, resp, snap, shared, lifeVars>>

CallNewConfigFromFile ==
    /\ srv = NoServer
    /\ out = NoCall
    /\ \E d \in Docs :
          out' = [fn |-> "NewConfigFromFile", doc |-> d,
                  ret |-> NewConfigFromFile(d)]
    /\ UNCHANGED <<srv, env, req, resp, snap, shared, lifeVars>>

CallNew ==
    /\ srv = NoServer
    /\ out = NoCall
    /\ \E opts \in NewInputs : srv' = New(opts)
    /\ UNCHANGED <<env, req, resp, out, snap, shared, lifeVars>>

\* os.Setenv by the process; the last response belongs to the environment
\* before it.  New reads no variable, so the changes of the environment
\* before New are left out.
Setenv(n, v) ==
    /\ srv.state = "built"
    /\ env[n] # v
    /\ env' = [env EXCEPT ![n] = v]
    /\ req' = NoRequest
    /\ resp' = NoResponse
    /\ UNCHANGED <<srv, out, snap, shared, lifeVars>>

\* A request that registers the path it asks for.
Request_Registers(p) ==
    /\ srv.state = "built"
    /\ req = NoRequest
    /\ req' = p
    /\ resp' = Respond(srv.routes, env, p)
    /\ srv' = [srv EXCEPT !.routes = (p :> OkHandler) @@ @]
    /\ UNCHANGED <<env, out, snap, shared, lifeVars>>

\* A request that marks the Server as stopped.
Request_Stops(p) ==
    /\ srv.state = "built"
    /\ req = NoRequest
    /\ req' = p
    /\ resp' = Respond(srv.routes, env, p)
    /\ status' = NilChan
    /\ UNCHANGED <<made, calls, pc, op, result, sel, got, gor, inShutdown,
                   listeners, busy, logged, life, overlap>>
    /\ UNCHANGED <<srv, env, out, snap, shared>>

\* s.HttpHandler().ServeHTTP(w, r) with r.URL.Path = p
Request(p) ==
    /\ srv.state = "built"
    /\ req = NoRequest
    /\ req' = p
    /\ resp' = Respond(srv.routes, env, p)
    /\ UNCHANGED <<srv, env, out, snap, shared, lifeVars>>

\* The client has read the response.
Consume ==
    /\ req # NoRequest
    /\ req' = NoRequest
    /\ resp' = NoResponse
    /\ UNCHANGED <<srv, env, out, snap, shared, lifeVars>>

InitNew ==
    /\ NotStarted
    /\ srv = NoServer
    /\ env = Unset
    /\ req = NoRequest
    /\ resp = NoResponse
    /\ out = NoCall
    /\ snap = NoSnapshot
    /\ shared = NoShared

NextNew ==
    \/ CallNewConfiguration
    \/ CallNewConfigFromFile
    \/ CallNew
    \/ \E n \in EnvNames, v \in EnvValues : Setenv(n, v)
    \/ \E p \in Probes(srv) : Request(p)
    \/ Consume

SpecNew == InitNew /\ [][NextNew]_vars

----------------------------------------------------------------------------
\* Configuration() and what its caller does with the value

\* The keys and the provider a caller writes into the Handlers of the value
WrittenKeys == {DefaultKey, <<"a">>}
WrittenProvider == Static("two")

\* c := s.Configuration(): return *s.config.  The struct is copied; its
\* Handlers field is a map, and the copy refers to the map of the Server.
\* held keeps, as history, the configuration the Server had at the call.
CallConfiguration ==
    /\ srv.state = "built"
    /\ ~snap.taken
    /\ snap' = [taken |-> TRUE,
                held |-> srv.config,
                value |-> [Address |-> srv.config.Address,
                           Endpoint |-> srv.config.Endpoint,
                           Port |-> srv.config.Port,
                           ShutdownTimeout |-> srv.config.ShutdownTimeout]]
    /\ UNCHANGED <<srv, env, req, resp, out, shared, lifeVars>>

\* c.Port = 1: a write to a field of the copy
WriteField ==
    /\ snap.taken
    /\ snap.value.Port # 1
    /\ snap' = [snap EXCEPT !.value.Port = 1]
    /\ UNCHANGED <<srv, env, req, resp, out, shared, lifeVars>>

\* c.Handlers[k] = v: a write to the map the copy refers to
WriteHandlers(k, v) ==
    /\ snap.taken
    /\ srv' = [srv EXCEPT !.config.Handlers = (k :> v) @@ @]
    /\ UNCHANGED <<env, req, resp, out, snap, shared, lifeVars>>

\* Start, Stop and Configuration() called one after the other, Configuration()
\* at any point of a Start or a Stop too.
NextQuery ==
    \/ NextSeq
    \/ CallConfiguration
    \/ WriteField
    \/ \E k \in WrittenKeys : WriteHandlers(k, WrittenProvider)

SpecQuery == Init /\ [][NextQuery]_vars

----------------------------------------------------------------------------
\* The Server in use: Start and Stop, Configuration(), HttpHandler() and
\* requests to the handler, in any order

\* if s.server == nil { return nil }; return s.server.Handler
HttpHandler(s) == IF s.state # "built" THEN NoMatch ELSE s.routes

\* h := s.HttpHandler()
CallHttpHandler ==
    /\ srv.state = "built"
    /\ out = NoCall
    /\ out' = [fn |-> "HttpHandler", ret |-> HttpHandler(srv)]
    /\ UNCHANGED <<srv, env, req, resp, snap, shared, lifeVars>>

\* The paths requested: the root path, the path of the handler, and a path
\* with no handler
UsedPaths(s) ==
    {s.config.Endpoint, PathJoin(s.config.Endpoint, DefaultKey),
     PathJoin(s.config.Endpoint, <<"a">>)}

NextUse ==
    \/ NextSeq
    \/ CallConfiguration
    \/ CallHttpHandler
    \/ \E p \in UsedPaths(srv) : Request(p)
    \/ Consume

SpecUse == Init /\ [][NextUse]_vars

----------------------------------------------------------------------------
\* Shared objects: a *Configuration that a caller hands to New, which keeps
\* the pointer (s.config = c), and the DefaultConfigurationHandlers map,
\* which every default Configuration refers to

MaxServers == 2

\* convert storing its entries into the DefaultConfigurationHandlers map.
ConvertTarget_Default == "DefaultConfigurationHandlers"

\* The map that convert stores its entries into: the one it makes.  No
\* other function of the package stores into a map; the directives and
\* NewConfiguration assign the Handlers field.
ConvertTarget == "result"

\* The DefaultConfigurationHandlers map after convert(m)
GlobalAfterConvert(g, m) ==
    IF ConvertTarget = "DefaultConfigurationHandlers" THEN convert(m) @@ g
    ELSE g

\* The DefaultConfigurationHandlers map after NewConfigFromFile(d), which
\* calls convert when the document is decoded
GlobalAfterLoad(g, d) ==
    IF d.kind = "ok" THEN GlobalAfterConvert(g, Unmarshal(d).Handlers) ELSE g

\* The DefaultConfigurationHandlers map after the directives of New
RECURSIVE GlobalAfterOptions(_, _, _)
GlobalAfterOptions(g, opts, i) ==
    IF i > Len(opts) THEN g
    ELSE GlobalAfterOptions(
            IF opts[i].opt = "WithConfigFile"
              THEN GlobalAfterLoad(g, opts[i].doc) ELSE g,
            opts, i + 1)

\* A Server among the Servers built: the address its http.Server listens
\* on, whether its s.config is the caller's Configuration, and the Address
\* and Port of its own Configuration otherwise.
ServerOf(s, shares) ==
    [addr |-> s.addr, shares |-> shares,
     own |-> IF shares THEN NoConfig
             ELSE [Address |-> s.config.Address, Port |-> s.config.Port]]

\* s.Configuration() of a Server among the Servers built: *s.config
ConfigurationOf(u) == IF u.shares THEN shared.c ELSE u.own

\* The directives that follow WithConfiguration(c), and the lists of them
FurtherOpts == {d \in BasicOpts : d.opt \in {"WithAddress", "WithPort"}}
FurtherLists == UNION {[1 .. n -> FurtherOpts] : n \in 0 .. MaxOpts - 1}

\* The directives of a New call of its own: one or two of every kind
OwnOpts ==
    {WithAddress("10.11.12.13"), WithPort(777), WithLogger("user"),
     WithEndpoint(<<"c">>), WithHandlers(<<"a">> :> Static("one")),
     WithConfiguration(Literal(<<"c">>, <<"b">> :> Static("two"))),
     WithConfigFile(BadDoc("unreadable")), WithConfigFile(FullDoc),
     WithConfigFile(EnvDoc)}
OwnLists == UNION {[1 .. n -> OwnOpts] : n \in 0 .. MaxOpts}

\* c := NewConfiguration(h)
MakeConfiguration ==
    /\ shared.c = NoConfig
    /\ \E h \in {EmptyMap, <<"a">> :> Static("one")} :
          shared' = [shared EXCEPT !.c = NewConfiguration(h)]
    /\ UNCHANGED <<srv, env, req, resp, out, snap, lifeVars>>

\* c, err := NewConfigFromFile(path)
LoadConfiguration ==
    /\ shared.c = NoConfig
    /\ \E d \in {EmptyDoc, FullDoc, EnvDoc, BadDoc("malformed")} :
          shared' = [shared EXCEPT
                       !.c = NewConfigFromFile(d).config,
                       !.global = GlobalAfterLoad(@, d)]
    /\ UNCHANGED <<srv, env, req, resp, out, snap, lifeVars>>

\* New(WithConfiguration(c), further...): the directives after
\* WithConfiguration(c) and the normalization of the Endpoint assign the
\* fields of *c, and the Server keeps c.
NewWithShared ==
    /\ shared.c # NoConfig
    /\ Len(shared.users) < MaxServers
    /\ \E further \in FurtherLists :
          LET s == New(<<WithConfiguration(shared.c)>> \o further) IN
          /\ s.state = "built"
          /\ shared' = [shared EXCEPT
                          !.c = s.config,
                          !.users = Append(@, ServerOf(s, TRUE))]
    /\ UNCHANGED <<srv, env, req, resp, out, snap, lifeVars>>

\* New(opts...) with directives of its own
NewWithOwn ==
    /\ Len(shared.users) < MaxServers
    /\ \E opts \in OwnLists :
          LET s == New(opts) IN
          shared' = [shared EXCEPT
                       !.global = GlobalAfterOptions(@, opts, 1),
                       !.users = IF s.state = "built"
                                   THEN Append(@, ServerOf(s, FALSE))
                                   ELSE @]
    /\ UNCHANGED <<srv, env, req, resp, out, snap, lifeVars>>

NextShared ==
    \/ MakeConfiguration
    \/ LoadConfiguration
    \/ NewWithShared
    \/ NewWithOwn

SpecShared == InitNew /\ [][NextShared]_vars

----------------------------------------------------------------------------
\* Properties of the lifecycle

InStart(t) == pc[t] \in {"start_check", "start_make", "start_select",
                         "start_wait", "start_reset"}
Returned(t, o) == pc[t] = "idle" /\ op[t] = o

\* C1: after a Start and a Stop that both returned success, the accept loop
\* of a following Start listens: unless the address cannot be bound or a Stop
\* was called after that Start, ListenAndServe does not come back with
\* ErrServerClosed, so the Start can return success with the server listening.
C1_LifecycleRepeatable ==
    \A g \in Chans :
        (gor[g].cycled /\ gor[g].pc \notin {"none", "spawned"})
            => gor[g].how \in {"listened", "bindfail", "closed"}

\* C2: a Start that finds the run state not Stopped returns
\* ErrServerAlreadyStarted, spawns no accept loop and leaves the run state
\* and the listeners as they are, so that the check of a following Stop
\* passes.
C2_StartRejected ==
    [][\A t \in Callers :
          (pc[t] = "start_check" /\ pc'[t] # "start_check"
              /\ status # NilChan)
            => /\ pc'[t] = "idle"
               /\ result'[t] = "ErrServerAlreadyStarted"
               /\ status' = status
               /\ made' = made
               /\ gor' = gor
               /\ listeners' = listeners]_vars

C2_Witness ==
    \E t \in Callers :
        /\ Returned(t, "Start")
        /\ result[t] = "ErrServerAlreadyStarted"
        /\ status # NilChan
        /\ listeners # {}

\* C3: a Stop that finds the run state Stopped returns ErrServerIsNotRunning,
\* calls no Shutdown and leaves the run state Stopped.
C3_StopRejected ==
    [][\A t \in Callers :
          (pc[t] = "stop_check" /\ pc'[t] # "stop_check"
              /\ status = NilChan)
            => /\ pc'[t] = "idle"
               /\ result'[t] = "ErrServerIsNotRunning"
               /\ status' = NilChan
               /\ inShutdown' = inShutdown
               /\ listeners' = listeners]_vars

\* Stop is rejected after a Start that failed.
C3_Witness ==
    \E t, u \in Callers :
        /\ Returned(t, "Stop")
        /\ result[t] = "ErrServerIsNotRunning"
        /\ Returned(u, "Start")
        /\ result[u] = "ErrBind"
        /\ status = NilChan

\* C4: a Start that receives the result of the listening operation inside
\* the grace window returns exactly that result, and the run state is
\* Stopped when it returns.
C4_StartFailure ==
    [][\A t \in Callers :
          /\ (pc[t] = "start_wait" /\ pc'[t] = "start_reset")
               => \E g \in Chans : /\ gor[g].pc = "sending"
                                   /\ gor'[g].pc = "sent"
                                   /\ got'[t] = gor[g].err
          /\ (pc[t] = "start_reset" /\ pc'[t] # "start_reset")
               => /\ pc'[t] = "idle"
                  /\ result'[t] = got[t]
                  /\ status' = NilChan]_vars

C4_Witness ==
    \E t \in Callers :
        /\ Returned(t, "Start")
        /\ result[t] = "ErrBind"
        /\ status = NilChan
        /\ \E g \in Chans : gor[g].how = "bindfail" /\ gor[g].pc = "sent"

C6_LateFailureLogged ==
    \A g \in Chans :
        (/\ gor[g].pc = "sending"
         /\ IsFailure(gor[g].err)
         /\ \A t \in Callers : ~InStart(t))
            => g \in logged

\* C7: of two overlapping Start calls at most one returns success.
C7_OneStartSucceeds ==
    \A t, u \in Callers :
        (/\ t # u
         /\ u \in overlap[t]
         /\ Returned(t, "Start")
         /\ Returned(u, "Start"))
            => ~(result[t] = "nil" /\ result[u] = "nil")

\* C8: while the server is listening and no call is in progress, the run
\* state is not Stopped, so that a Stop is not rejected while the server
\* serves.
C8_ListeningIsRunning ==
    (listeners # {} /\ AllIdle) => status # NilChan

\* C9: of two overlapping Stop calls at most one gets to call Shutdown.
ShutsDown(t) ==
    \/ pc[t] = "stop_wait"
    \/ Returned(t, "Stop") /\ result[t] # "ErrServerIsNotRunning"

C9_OneStopShutsDown ==
    \A t, u \in Callers :
        (t # u /\ u \in overlap[t]) => ~(ShutsDown(t) /\ ShutsDown(u))

\* C10: a Stop that finds the run state not Stopped first sets it to
\* Stopped, then calls Shutdown, and returns what Shutdown returns, nil or
\* an error; returning, it leaves the run state as it is.
C10_StopShutsDown ==
    [][\A t \in Callers :
          /\ (pc[t] = "stop_check" /\ pc'[t] # "stop_check"
                 /\ status # NilChan)
               => pc'[t] = "stop_mark" /\ status' = status
          /\ (pc[t] = "stop_mark" /\ pc'[t] # "stop_mark")
               => /\ pc'[t] = "stop_shutdown"
                  /\ status' = NilChan
                  /\ inShutdown' = inShutdown
                  /\ listeners' = listeners
          /\ (pc[t] = "stop_shutdown" /\ pc'[t] # "stop_shutdown")
               => /\ pc'[t] = "stop_wait"
                  /\ inShutdown'
                  /\ listeners' = {}
                  /\ status' = status
          /\ (pc[t] = "stop_wait" /\ pc'[t] # "stop_wait")
               => /\ pc'[t] = "idle"
                  /\ result'[t] = IF ~busy THEN "nil"
                                  ELSE "DeadlineExceeded"
                  /\ status' = status]_vars

\* Stop returned the error of Shutdown and the run state is Stopped.
C10_Witness ==
    \E t \in Callers :
        /\ Returned(t, "Stop")
        /\ result[t] = "DeadlineExceeded"
        /\ status = NilChan
        /\ AllIdle

\* C11: Stop ends serving as the spec describes: once Shutdown has begun no
\* listener is open, and when Stop returns the error of a Shutdown that ran
\* out of time, the connections that were still open have been closed.
C11_ShutdownForceCloses ==
    \A t \in Callers :
        /\ (pc[t] = "stop_wait") => listeners = {}
        /\ (Returned(t, "Stop") /\ result[t] = "DeadlineExceeded") => ~busy


----------------------------------------------------------------------------
\* Properties of construction and serving

Built == srv.state = "built"
Asked == Built /\ req # NoRequest

\* The url path of the handler key k of the Server
UrlPathOf(k) == PathJoin(srv.config.Endpoint, k)

\* The Server was made by New with the one directive WithHandlers(h), or New
\* panicked on it.
OnlyHandlers ==
    /\ srv.state # "none"
    /\ Len(srv.opts) = 1
    /\ srv.opts[1].opt = "WithHandlers"

\* C12: for every handler configuration, the keys that join to the root path
\* included, New succeeds, and a request to exactly Configuration().Endpoint
\* is answered with the body "ok".
C12_RootAlwaysOk ==
    /\ OnlyHandlers => Built
    /\ (Asked /\ req = srv.config.Endpoint) => resp = Ok200("ok")

\* C13: a request to path.Join(Endpoint, k) returns the current output of
\* the provider registered under the key k, whatever the number of keys.
C13_OwnProvider ==
    Asked =>
       \A k \in DOMAIN srv.config.Handlers :
           req = UrlPathOf(k) =>
              resp = Ok200(Invoke(srv.config.Handlers[k], env))

\* Two keys whose providers differ now, and the path of one of them asked.
C13_Witness ==
    /\ Asked
    /\ \E k1, k2 \in DOMAIN srv.config.Handlers :
          /\ Invoke(srv.config.Handlers[k1], env)
                # Invoke(srv.config.Handlers[k2], env)
          /\ req = UrlPathOf(k1)
          /\ resp = Ok200(Invoke(srv.config.Handlers[k1], env))

\* The metadata entries of a document that have the shape {"env": NAME}
EnvEntries(d) ==
    IF d.kind = "ok" /\ "metadata" \in d.has
      THEN {k \in DOMAIN d.metadata :
               /\ d.metadata[k].object
               /\ d.metadata[k].has = {"env"}
               /\ d.metadata[k].env.t = "string"}
      ELSE {}

\* The Server was made by New with the one directive WithConfigFile.
OnlyConfigFile ==
    /\ Built
    /\ Len(srv.opts) = 1
    /\ srv.opts[1].opt = "WithConfigFile"

\* C14: the provider decoded from an entry {"env": NAME} returns the value
\* NAME has when it is invoked, the empty string while NAME is unset; the
\* response to a request for its path carries the value NAME has at the
\* time of the request, whatever it was before.
C14_EnvReadEveryTime ==
    /\ out.fn = "NewConfigFromFile" =>
          \A k \in EnvEntries(out.doc) :
             \A e \in [EnvNames -> EnvValues] :
                 Invoke(out.ret.config.Handlers[k], e)
                    = e[out.doc.metadata[k].env.s]
    /\ (OnlyConfigFile /\ req # NoRequest) =>
          \A k \in EnvEntries(srv.opts[1].doc) :
              req = UrlPathOf(k) =>
                 resp = Ok200(env[srv.opts[1].doc.metadata[k].env.s])

\* The variable was set after New, then the path of the entry was asked.
C14_Witness ==
    /\ OnlyConfigFile
    /\ env["X_A"] = "hello"
    /\ \E k \in EnvEntries(srv.opts[1].doc) :
          req = UrlPathOf(k) /\ resp = Ok200("hello")

\* C15: a request to a path that is neither the root path nor the path of a
\* configured key gets the not-found response, never "ok" or the output of
\* a provider, for every Endpoint, one that ends in a slash included.
C15_OthersNotFound ==
    (/\ Asked
     /\ req # srv.config.Endpoint
     /\ \A k \in DOMAIN srv.config.Handlers : req # UrlPathOf(k))
    => resp = NotFound404

\* C16: NewConfiguration(h) has the default handler set when h is nil or
\* empty and exactly h otherwise; Address, Port, Endpoint and
\* ShutdownTimeout have their default values in both cases.
C16_NewConfiguration ==
    out.fn = "NewConfiguration" =>
       /\ out.config.Handlers =
             IF out.handlers = EmptyMap
               THEN DefaultKey :> Static("test-project-id")
               ELSE out.handlers
       /\ out.config.Address = "169.254.169.254"
       /\ out.config.Port = 80
       /\ out.config.Endpoint = DefaultEndpoint
       /\ out.config.ShutdownTimeout = 5

C16_Witness ==
    /\ out.fn = "NewConfiguration"
    /\ out.handlers = EmptyMap
    /\ DOMAIN out.config.Handlers = {DefaultKey}

\* The directive supplies no configuration: WithLogger, or a WithConfigFile
\* whose file does not load.
SuppliesNothing(d) ==
    \/ d.opt = "WithLogger"
    \/ d.opt = "WithConfigFile" /\ d.doc.kind # "ok"

\* C17: when no directive passed to New supplies a configuration, the
\* Server's configuration is the defaults: address 169.254.169.254, port 80,
\* endpoint /computeMetadata/v1, shutdown timeout 5, the built-in handlers.
C17_Defaults ==
    (/\ srv.state # "none"
     /\ \A i \in 1 .. Len(srv.opts) : SuppliesNothing(srv.opts[i]))
    => /\ Built
       /\ srv.config = [Address |-> "169.254.169.254",
                        Endpoint |-> DefaultEndpoint,
                        Handlers |-> DefaultKey :> Static("test-project-id"),
                        Port |-> 80,
                        ShutdownTimeout |-> 5]

\* New with a file that does not load and a logger.
C17_Witness ==
    /\ Built
    /\ Len(srv.opts) = 2
    /\ \A i \in 1 .. 2 : SuppliesNothing(srv.opts[i])
    /\ \E i \in 1 .. 2 : srv.opts[i].opt = "WithConfigFile"
    /\ srv.config.Port = 80


\* An endpoint with a slash in front when it has none
Slashed(e) == IF e[1] = "/" THEN e ELSE <<"/">> \o e

\* The keys of the metadata entries a document configures handlers with
Configured(d) ==
    IF "metadata" \in d.has
      THEN {k \in DOMAIN d.metadata :
               /\ d.metadata[k].object
               /\ d.metadata[k].has \cap {"value", "env"} # {}}
      ELSE {}

Loaded == out.fn = "NewConfigFromFile" /\ out.ret.err = "nil"

\* C18: each of address, endpoint, port, shutdownTimeout and metadata of a
\* document overrides the default only if it is present and not zero or
\* empty; every other field keeps its default, the handler set included.
C18_PresentFieldsOverride ==
    Loaded =>
       LET d == out.doc
           c == out.ret.config
       IN /\ c.Address = IF "address" \in d.has /\ d.address # ""
                           THEN d.address ELSE "169.254.169.254"
          /\ c.Endpoint = IF "endpoint" \in d.has /\ d.endpoint # <<>>
                            THEN Slashed(d.endpoint) ELSE DefaultEndpoint
          /\ c.Port = IF "port" \in d.has /\ d.port # 0 THEN d.port ELSE 80
          /\ c.ShutdownTimeout =
                IF "shutdownTimeout" \in d.has /\ d.shutdownTimeout # 0
                  THEN d.shutdownTimeout ELSE 5
          /\ DOMAIN c.Handlers =
                IF "metadata" \in d.has /\ d.metadata # EmptyMap
                  THEN Configured(d) ELSE {DefaultKey}

\* C18 as the code has it: address and endpoint override the default when
\* present and not empty, port and shutdownTimeout when present and greater
\* than zero; the handler set is what the metadata of the document
\* configures, and is empty, not the default set, when there is none.
C18_Amended ==
    Loaded =>
       LET d == out.doc
           c == out.ret.config
       IN /\ c.Address = IF "address" \in d.has /\ d.address # ""
                           THEN d.address ELSE "169.254.169.254"
          /\ c.Endpoint = IF "endpoint" \in d.has /\ d.endpoint # <<>>
                            THEN Slashed(d.endpoint) ELSE DefaultEndpoint
          /\ c.Port = IF "port" \in d.has /\ d.port > 0 THEN d.port ELSE 80
          /\ c.ShutdownTimeout =
                IF "shutdownTimeout" \in d.has /\ d.shutdownTimeout > 0
                  THEN d.shutdownTimeout ELSE 5
          /\ DOMAIN c.Handlers = Configured(d)

\* A document with a negative port and no metadata was loaded.
C18_Witness ==
    /\ Loaded
    /\ "port" \in out.doc.has
    /\ out.doc.port < 0
    /\ "metadata" \notin out.doc.has
    /\ out.ret.config.Port = 80
    /\ out.ret.config.Handlers = EmptyMap

\* The last directive of New was a WithConfigFile whose document loads and
\* has no metadata entries.
FromDocWithoutMetadata ==
    /\ Built
    /\ Len(srv.opts) >= 1
    /\ LET d == srv.opts[Len(srv.opts)] IN
          /\ d.opt = "WithConfigFile"
          /\ d.doc.kind = "ok"
          /\ ("metadata" \in d.doc.has => d.doc.metadata = EmptyMap)

\* C19: the route table of a Server built from a document that configures
\* no metadata entries contains the endpoint path and no other path.
C19_OnlyEndpoint ==
    FromDocWithoutMetadata => DOMAIN srv.routes = {srv.config.Endpoint}

\* Such a Server was asked for the path of the default key: not found.
C19_Witness ==
    /\ FromDocWithoutMetadata
    /\ req = UrlPathOf(DefaultKey)
    /\ resp = NotFound404

\* C20: the Endpoint of every Configuration returned by NewConfigFromFile
\* and of every Server returned by New, after any directives, is not empty
\* and begins with a slash: an endpoint without the slash gets one slash in
\* front, one that has it is unchanged.
C20_EndpointNormalized ==
    /\ Loaded =>
          /\ out.ret.config.Endpoint # <<>>
          /\ out.ret.config.Endpoint[1] = "/"
          /\ ("endpoint" \in out.doc.has /\ out.doc.endpoint # <<>>)
                => out.ret.config.Endpoint = Slashed(out.doc.endpoint)
    /\ srv.state = "panic" => srv.why # "index out of range"
    /\ Built =>
          /\ srv.config.Endpoint # <<>>
          /\ srv.config.Endpoint[1] = "/"
          /\ (Len(srv.opts) = 1 /\ srv.opts[1].opt = "WithEndpoint")
                => srv.config.Endpoint = Slashed(srv.opts[1].endpoint)


\* The directive is a WithConfigFile whose file does not load.
LoadFails(d) == d.opt = "WithConfigFile" /\ d.doc.kind # "ok"

FailedLoads(opts) == {i \in 1 .. Len(opts) : LoadFails(opts[i])}

\* The list of directives without those whose file does not load
WithoutFailedLoads(opts) == SelectSeq(opts, LAMBDA d : ~LoadFails(d))

\* C21: a WithConfigFile that fails to load is skipped: New ends as it does
\* for the same directives without it, with the configuration the other
\* directives set (the defaults when none did) and the routes built from it;
\* the failure does not keep New from returning the Server.
C21_FailedLoadSkipped ==
    (srv.state # "none" /\ FailedLoads(srv.opts) # {}) =>
       LET r == New(WithoutFailedLoads(srv.opts)) IN
       /\ srv.state = r.state
       /\ Built => (srv.config = r.config /\ srv.routes = r.routes)

\* New with WithPort and then a file that does not load: the port stays.
C21_Witness ==
    /\ Built
    /\ Len(srv.opts) = 2
    /\ srv.opts[1].opt = "WithPort"
    /\ LoadFails(srv.opts[2])
    /\ srv.config.Port = srv.opts[1].port

\* C22: every failure of a WithConfigFile to load is written to the logging
\* sink of the Server, wherever WithLogger stands in the list.
C22_LoadFailureLogged ==
    (Built /\ srv.logger = "user") =>
       Len(srv.errs) = Cardinality(FailedLoads(srv.opts))

\* The directive sets the field f of the configuration.
Sets(d, f) ==
    \/ d.opt = "WithConfiguration"
    \/ d.opt = "WithConfigFile" /\ d.doc.kind = "ok"
    \/ d.opt = "WithAddress" /\ f = "Address"
    \/ d.opt = "WithPort" /\ f = "Port"
    \/ d.opt = "WithEndpoint" /\ f = "Endpoint"
    \/ d.opt = "WithHandlers" /\ f = "Handlers"

DefaultOf(f) ==
    CASE f = "Address" -> "169.254.169.254"
      [] f = "Port" -> 80
      [] f = "Endpoint" -> DefaultEndpoint
      [] f = "Handlers" -> DefaultKey :> Static("test-project-id")

\* The value the directive gives the field f; a nil Configuration gives the
\* default.
ValueSet(d, f) ==
    CASE d.opt = "WithConfiguration" ->
           IF d.config = NoConfig THEN DefaultOf(f) ELSE d.config[f]
      [] d.opt = "WithConfigFile" -> NewConfigFromFile(d.doc).config[f]
      [] d.opt = "WithAddress" -> d.address
      [] d.opt = "WithPort" -> d.port
      [] d.opt = "WithEndpoint" -> d.endpoint
      [] d.opt = "WithHandlers" -> d.handlers

\* The value of the last directive that sets f, the default without one
LastValue(opts, f) ==
    LET S == {i \in 1 .. Len(opts) : Sets(opts[i], f)} IN
    IF S = {} THEN DefaultOf(f)
    ELSE ValueSet(opts[CHOOSE i \in S : \A j \in S : j <= i], f)

\* C23: for each of Address, Port, Endpoint and Handlers the Server has the
\* value of the last directive that sets the field, where WithConfiguration
\* and a WithConfigFile that loads set all four; the Endpoint with its slash.
C23_LastDirectiveWins ==
    Built =>
       /\ srv.config.Address = LastValue(srv.opts, "Address")
       /\ srv.config.Port = LastValue(srv.opts, "Port")
       /\ srv.config.Handlers = LastValue(srv.opts, "Handlers")
       /\ srv.config.Endpoint = Slashed(LastValue(srv.opts, "Endpoint"))

\* WithPort and then a whole Configuration: the port of the Configuration.
C23_Witness ==
    /\ Built
    /\ Len(srv.opts) = 2
    /\ srv.opts[1].opt = "WithPort"
    /\ srv.opts[2].opt = "WithConfiguration"
    /\ srv.opts[2].config # NoConfig
    /\ srv.config.Port = srv.opts[2].config.Port
    /\ srv.config.Port # srv.opts[1].port


\* C24: Configuration() can be called in every run state and leaves the run
\* state alone, and what it returns is a snapshot: whatever the caller
\* writes into the returned value, its Handlers map included, the Server
\* holds the configuration it held when Configuration() was called.
C24_ReadOnlySnapshot ==
    snap.taken => srv.config = snap.held


\* The metadata of a document that was read and decoded
MetadataOf(d) == IF "metadata" \in d.has THEN d.metadata ELSE EmptyMap

\* The string form of the values the documents hold: the text of a string,
\* the digits of the number 15
StringForm(v) == IF v.t = "string" THEN v.s ELSE "15"

Environments == [EnvNames -> EnvValues]

\* C25: each metadata entry of a decoded document yields at most one
\* provider: an object with a value key a static provider that returns the
\* string form of the value on every call, an object with an env key (and
\* no value key) a provider that reads that variable, every other entry
\* none, and none of this is an error.
C25_EntryShapes ==
    (out.fn = "NewConfigFromFile" /\ out.doc.kind = "ok") =>
       LET md == MetadataOf(out.doc)
           h == out.ret.config.Handlers
       IN /\ out.ret.err = "nil"
          /\ DOMAIN h \subseteq DOMAIN md
          /\ \A k \in DOMAIN md :
                IF md[k].object /\ "value" \in md[k].has
                  THEN /\ k \in DOMAIN h
                       /\ \A e \in Environments :
                             Invoke(h[k], e) = StringForm(md[k].value)
                ELSE IF md[k].object /\ "env" \in md[k].has
                  THEN /\ k \in DOMAIN h
                       /\ \A e \in Environments :
                             Invoke(h[k], e) = e[md[k].env.s]
                ELSE k \notin DOMAIN h

\* A document with an entry that is no object and an entry whose value is a
\* number was decoded.
C25_Witness ==
    /\ Loaded
    /\ \E k1, k2 \in DOMAIN MetadataOf(out.doc) :
          /\ ~out.doc.metadata[k1].object
          /\ k1 \notin DOMAIN out.ret.config.Handlers
          /\ out.doc.metadata[k2].object
          /\ out.doc.metadata[k2].has = {"value"}
          /\ out.doc.metadata[k2].value.t = "number"
          /\ Invoke(out.ret.config.Handlers[k2], env) = "15"

\* C26: NewConfigFromFile returns an error and no Configuration when the
\* file cannot be read or its content cannot be decoded, and a Configuration
\* with a nil error otherwise.
C26_LoadError ==
    out.fn = "NewConfigFromFile" =>
       IF out.doc.kind \in {"unreadable", "malformed"}
         THEN out.ret.err # "nil" /\ out.ret.config = NoConfig
         ELSE out.ret.err = "nil" /\ out.ret.config # NoConfig

\* A file whose content is no document was given.
C26_Witness ==
    /\ out.fn = "NewConfigFromFile"
    /\ out.doc.kind = "malformed"
    /\ out.ret.err = "malformed"
    /\ out.ret.config = NoConfig


----------------------------------------------------------------------------
\* Properties of the goroutines and of the run state

\* C27: every Start call returns to its caller, whether the goroutine binds,
\* fails early, fails late or never gets to run, and with a Stop call
\* overlapping it: the callers alone are scheduled fairly.
C27_StartReturns ==
    \A t \in Callers : (op[t] = "Start" /\ pc[t] # "idle") ~> (pc[t] = "idle")

\* A Start returned success with its goroutine not yet run and a Stop call
\* overlapping it.
C27_Witness ==
    \E t \in Callers :
        /\ Returned(t, "Start")
        /\ result[t] = "nil"
        /\ \E u \in overlap[t] : op[u] = "Stop"
        /\ \E g \in Chans : gor[g].pc = "spawned"

\* The goroutines that were spawned and have not delivered their status; one
\* that has is left with its log statement and counts as ended.
Live == {g \in Chans : gor[g].pc \notin {"none", "sent", "exit"}}

\* C28: a goroutine is spawned only by a Start that is not rejected, one for
\* each, and the Server never has more than one goroutine that has not
\* ended.
C28_OneLiveUnit ==
    /\ \A g \in Live : g <= made
    /\ Cardinality(Live) <= 1

\* A Stop that was not rejected has returned, no call is in progress and no
\* Start has succeeded since, and the goroutine g has not ended.
LiveAfterStop(g) ==
    /\ g \in Live
    /\ AllIdle
    /\ status = NilChan
    /\ \E t \in Callers :
          Returned(t, "Stop") /\ result[t] # "ErrServerIsNotRunning"

\* C29: after a Start that returned success and a later Stop that returned,
\* the goroutine of that Start ends; it does not stay blocked in its send.
C29_UnitTerminates ==
    \A g \in Chans : LiveAfterStop(g) ~> (gor[g].pc = "exit")

\* The run state is Running: s.status holds a channel and no Start is
\* waiting for its goroutine.
Running ==
    /\ status # NilChan
    /\ \A t \in Callers : pc[t] \notin {"start_select", "start_wait",
                                          "start_reset"}

\* C30: a Running Server leaves that state only in a step of Stop: no other
\* step, that of a timer, a request or a goroutine included, resets
\* s.status, and the listener is closed only by the Shutdown of a Stop or by
\* a failure of Accept itself.
C30_OnlyStopLeavesRunning ==
    [][/\ (Running /\ status' = NilChan) =>
             \E t \in Callers : pc[t] = "stop_mark" /\ pc'[t] = "stop_shutdown"
       /\ (listeners # {} /\ listeners' = {}) =>
             \/ \E t \in Callers :
                   pc[t] = "stop_shutdown" /\ pc'[t] = "stop_wait"
             \/ \E g \in listeners : gor'[g].err = "ErrAccept"]_vars

\* A Running Server whose Start returned by the timer, with a request in
\* flight.
C30_Witness ==
    /\ Running
    /\ AllIdle
    /\ listeners # {}
    /\ busy
    /\ \E t \in Callers : Returned(t, "Start") /\ result[t] = "nil"

----------------------------------------------------------------------------
\* Properties of the Server between New and its first Start

\* No caller has called Start yet: a Start returns before it makes a channel
\* only when it finds one.
NoStartYet == made = 0 /\ \A t \in Callers : op[t] # "Start"

\* C31: New does not start listening.  As long as Start has not been called,
\* whatever else was called, the Server is stopped (s.status is nil), no
\* accept loop exists, no listener is open and no connection is open.
C31_NewDoesNotListen ==
    NoStartYet =>
        /\ status = NilChan
        /\ \A g \in Chans : gor[g].pc = "none"
        /\ listeners = {}
        /\ ~busy
        /\ ~inShutdown

\* A Stop was called on the new Server and was rejected, and a second Stop is
\* in progress; Start has not been called.
C31_Witness ==
    /\ NoStartYet
    /\ \E t, u \in Callers :
          /\ Returned(t, "Stop") /\ result[t] = "ErrServerIsNotRunning"
          /\ op[u] = "Stop" /\ InCall(u)

----------------------------------------------------------------------------
\* Frame properties of the Server in use

\* C32: the route table is fixed once New has returned.  No step of a Start
\* or a Stop, no Configuration(), no HttpHandler() and no request changes the
\* patterns of the mux or the handler of a pattern.
C32_RoutesFixed ==
    [][srv.state = "built" =>
          /\ srv'.state = "built"
          /\ srv'.routes = srv.routes
          /\ HttpHandler(srv') = HttpHandler(srv)]_vars

\* After a Start and a Stop that succeeded, Configuration() and HttpHandler()
\* have been called and a request to the root path has been answered.
C32_Witness ==
    /\ life = "cycled"
    /\ snap.taken
    /\ out.fn = "HttpHandler"
    /\ req = srv.config.Endpoint
    /\ resp = Ok200("ok")

\* A request is answered in this step.
Serves == req' # req /\ req' # NoRequest

\* C33: serving a request, to the root path or to a handler path, changes
\* neither the run state of the Server (s.status, its goroutines, the
\* listener and the shutdown flag of the http.Server) nor its configuration.
C33_RequestsChangeNothing ==
    [][Serves =>
          /\ status' = status
          /\ gor' = gor
          /\ listeners' = listeners
          /\ inShutdown' = inShutdown
          /\ srv'.config = srv.config]_vars

\* A request to the handler path was answered while the Server was running.
C33_Witness ==
    /\ status # NilChan
    /\ listeners # {}
    /\ AllIdle
    /\ req = PathJoin(srv.config.Endpoint, DefaultKey)
    /\ resp = Ok200("test-project-id")

----------------------------------------------------------------------------
\* Properties of the route table

\* New was called with the one directive WithHandlers(h) or
\* WithConfiguration(c), and the Endpoint is not empty: the handler set and
\* the Endpoint, as New normalizes it, of that call.
HandlerSetGiven ==
    /\ srv.state # "none"
    /\ Len(srv.opts) = 1
    /\ \/ srv.opts[1].opt = "WithHandlers"
       \/ /\ srv.opts[1].opt = "WithConfiguration"
          /\ srv.opts[1].config # NoConfig
          /\ srv.opts[1].config.Endpoint # <<>>

GivenHandlers ==
    IF srv.opts[1].opt = "WithHandlers" THEN srv.opts[1].handlers
    ELSE srv.opts[1].config.Handlers

GivenEndpoint ==
    IF srv.opts[1].opt = "WithHandlers" THEN DefaultEndpoint
    ELSE NormalizeEndpoint(srv.opts[1].config.Endpoint)

\* C34: for every handler set (the keys of a map are unique) the route table
\* is built and holds exactly one path for each key and the root path: the
\* keys are joined to absolute paths that differ from each other and from
\* the root path.
C34_OnePathPerKey ==
    HandlerSetGiven =>
       LET urlPath == [k \in DOMAIN GivenHandlers |->
                          PathJoin(GivenEndpoint, k)] IN
       /\ Built
       /\ \A k \in DOMAIN urlPath :
             urlPath[k] # GivenEndpoint /\ urlPath[k][1] = "/"
       /\ \A k1, k2 \in DOMAIN urlPath :
             k1 # k2 => urlPath[k1] # urlPath[k2]
       /\ DOMAIN srv.routes =
             {GivenEndpoint} \cup {urlPath[k] : k \in DOMAIN urlPath}
       /\ Cardinality(DOMAIN srv.routes) =
             Cardinality(DOMAIN GivenHandlers) + 1

----------------------------------------------------------------------------
\* Properties of shared objects

\* C35: every Server listens on the address and port that its
\* Configuration() reports, also when one Configuration is given through
\* WithConfiguration to several New calls with further WithAddress or
\* WithPort directives.
C35_ListensWhereConfigured ==
    \A i \in DOMAIN shared.users :
       LET u == shared.users[i]
           c == ConfigurationOf(u)
       IN u.addr = JoinHostPort(c.Address, Itoa(c.Port))

\* C36: no constructor and no directive adds, removes or replaces an entry
\* of the DefaultConfigurationHandlers map: after every sequence of
\* NewConfiguration, NewConfigFromFile and New calls the map is as the
\* package declares it.
C36_DefaultHandlersUntouched ==
    shared.global = DefaultConfigurationHandlers

\* A Configuration was loaded from a document with metadata, and the Servers
\* built are one from a WithConfigFile directive, which has the handler of
\* the document, and one with the defaults.
C36_Witness ==
    /\ shared.c # NoConfig
    /\ DOMAIN shared.c.Handlers = {<<"a">>}
    /\ \E i, j \in DOMAIN shared.users :
          /\ i < j
          /\ shared.users[i] =
                ServerOf(New(<<WithConfigFile(FullDoc)>>), FALSE)
          /\ shared.users[j] = ServerOf(New(<<>>), FALSE)

----------------------------------------------------------------------------
\* Properties of the Configuration loaded from a file

\* C37: for every document that is decoded, the Configuration that
\* NewConfigFromFile returns has a Port above zero, a ShutdownTimeout above
\* zero and an Address that is not empty, whether the document gives these
\* fields a zero, a negative or no value.
C37_UsableFields ==
    Loaded =>
       /\ out.ret.config.Port > 0
       /\ out.ret.config.ShutdownTimeout > 0
       /\ out.ret.config.Address # ""

\* A document was loaded that gives a negative port, the timeout zero and
\* the empty address; another case is the document that gives none of them.
C37_Witness ==
    /\ Loaded
    /\ {"address", "port", "shutdownTimeout"} \subseteq out.doc.has
    /\ out.doc.port < 0
    /\ out.doc.shutdownTimeout = 0
    /\ out.doc.address = ""
    /\ out.ret.config.Port = DefaultPort
    /\ out.ret.config.ShutdownTimeout = DefaultShutdownTimeout
    /\ out.ret.config.Address = DefaultAddress

============================================================================
